---- MODULE Spec2Model ----
(***************************************************************************)
(* A model of banks_project.py: the ETL driver (__main__) and its stages   *)
(* extract, transform, load_to_csv, load_to_db, run_query and log_progress.*)
(*                                                                         *)
(* Text is a sequence of one-character strings.  A float is an exact       *)
(* decimal m * 10^-e (record [m, e], trailing zeros stripped); np.round is *)
(* round-half-to-even on that decimal.  A DataFrame is a record of its     *)
(* column names and its rows, each row a sequence of cells aligned with    *)
(* the columns.                                                            *)
(***************************************************************************)
EXTENDS Integers, Sequences, FiniteSets, TLC

VARIABLES
    cfg,             \* env_variables.json: table_attributes, table_name
    rate_file,       \* the exchange rates in the file at csv_path
    run,             \* number of runs of the program started so far
    status,          \* "idle", "running", "failed" (uncaught exception), "done"
    pc,              \* the statement of __main__ the run is at
    error,           \* the exception that ended the run, "none" otherwise
    df,              \* the DataFrame threaded through the stages
    query_statement, \* the query built by __main__
    out,             \* the query output printed by run_query
    conn,            \* sql_connection: "none", "open", "closed"
    opens,           \* calls of sqlite3.connect in this run
    page,            \* extract's local: the page it fetched
    trace,           \* stages finished and messages logged in this run, in order
    log,             \* code_log.txt, one message per line
    csv,             \* the file at output_path
    db               \* the database file: table name -> table

vars == <<cfg, rate_file, run, status, pc, error, df, query_statement, out, conn,
          opens, page, trace, log, csv, db>>

(***************************************************************************)
(* Bounds                                                                  *)
(***************************************************************************)
\* rows of the first <tbody> of a fetched page
MaxRows == 2
\* runs of the program against the same files
MaxRuns == 2
\* length of the enumerated raw metric strings
MaxLen == 3

(***************************************************************************)
(* Text and numbers                                                        *)
(***************************************************************************)
Digits == {"0", "1", "2", "3", "4", "5", "6", "7", "8", "9"}

DigitVal(c) ==
    CASE c = "0" -> 0 [] c = "1" -> 1 [] c = "2" -> 2 [] c = "3" -> 3
      [] c = "4" -> 4 [] c = "5" -> 5 [] c = "6" -> 6 [] c = "7" -> 7
      [] c = "8" -> 8 [] c = "9" -> 9

RECURSIVE Pow10(_)
Pow10(k) == IF k = 0 THEN 1 ELSE 10 * Pow10(k - 1)

\* a float: strip the trailing zeros of the fraction so that equal values
\* have equal representations
RECURSIVE Norm(_, _)
Norm(m, e) ==
    IF e > 0 /\ m % 10 = 0 THEN Norm(m \div 10, e - 1) ELSE [m |-> m, e |-> e]

\* x.split('\n')[0]
RECURSIVE FirstSegment(_)
FirstSegment(s) ==
    IF s = <<>> \/ Head(s) = "\n" THEN <<>>
    ELSE <<Head(s)>> \o FirstSegment(Tail(s))

\* ''.join(y.split(','))
RemoveCommas(s) == SelectSeq(s, LAMBDA c : c # ",")

\* float(t) accepts t: digits with at most one point and at least one digit
\* (the texts of the model hold no sign, exponent, blank or underscore)
IsFloat(t) ==
    /\ \A i \in 1..Len(t) : t[i] \in Digits \cup {"."}
    /\ Cardinality({i \in 1..Len(t) : t[i] = "."}) <= 1
    /\ \E i \in 1..Len(t) : t[i] \in Digits

RECURSIVE DigitsValue(_)
DigitsValue(t) ==
    IF t = <<>> THEN 0
    ELSE 10 * DigitsValue(SubSeq(t, 1, Len(t) - 1)) + DigitVal(t[Len(t)])

\* float(t) for an accepted t
ParseFloat(t) ==
    LET dots == {i \in 1..Len(t) : t[i] = "."}
        frac == IF dots = {} THEN 0 ELSE Len(t) - (CHOOSE i \in dots : TRUE)
    IN  Norm(DigitsValue(SelectSeq(t, LAMBDA c : c # ".")), frac)

\* float(''.join((x.split('\n')[0]).split(',')))
CleanText(x) == RemoveCommas(FirstSegment(x))

\* np.round(x * rate, 2) with an integer number of hundredths dropped
Round2Truncating(x, rate) ==
    LET p == x.m * rate.m
        e == x.e + rate.e
    IN  IF e <= 2 THEN Norm(p * Pow10(2 - e), 2)
        ELSE Norm(p \div Pow10(e - 2), 2)

\* np.round(x * rate, 2): the product rounded to two decimals, ties to even
Round2(x, rate) ==
    LET p == x.m * rate.m
        e == x.e + rate.e
    IN  IF e <= 2 THEN Norm(p * Pow10(2 - e), 2)
        ELSE LET unit == Pow10(e - 2)
                 q == p \div unit
                 r == p % unit
                 up == (2 * r > unit) \/ (2 * r = unit /\ q % 2 = 1)
             IN  Norm(IF up THEN q + 1 ELSE q, 2)

(***************************************************************************)
(* Cells and DataFrames                                                    *)
(***************************************************************************)
Text(s) == [t |-> "text", s |-> s, m |-> 0, e |-> 0]
Num(x) == [t |-> "num", s |-> <<>>, m |-> x.m, e |-> x.e]
NaN == [t |-> "nan", s |-> <<>>, m |-> 0, e |-> 0]

NoDf == [columns |-> <<>>, rows |-> <<>>]

ColIndex(columns, c) == CHOOSE i \in 1..Len(columns) : columns[i] = c
HasColumn(d, c) == \E i \in 1..Len(d.columns) : d.columns[i] = c
Column(d, c) == [i \in 1..Len(d.rows) |-> d.rows[i][ColIndex(d.columns, c)]]

\* pd.DataFrame(columns = table_attributes)
EmptyFrame(table_attributes) == [columns |-> table_attributes, rows |-> <<>>]

\* pd.DataFrame(data_dict, index=[0])
OneRowFrame(name, metric) ==
    [columns |-> <<"Name", "MC_USD_Billion">>,
     rows |-> <<  <<Text(name), Text(metric)>>  >>]

\* pd.concat([a, b], ignore_index=True): the columns of a, then those of b
\* that a lacks; a cell of a column a frame lacks is NaN
Concat(a, b) ==
    LET extra == SelectSeq(b.columns, LAMBDA c : ~ HasColumn(a, c))
        columns == a.columns \o extra
        widen(d, r) == [j \in 1..Len(columns) |->
                          IF HasColumn(d, columns[j])
                          THEN r[ColIndex(d.columns, columns[j])] ELSE NaN]
    IN  [columns |-> columns,
         rows |-> [i \in 1..Len(a.rows) |-> widen(a, a.rows[i])]
                  \o [i \in 1..Len(b.rows) |-> widen(b, b.rows[i])]]

\* df[c] = values: the column is overwritten in place, or added last
SetColumn(d, c, values) ==
    IF HasColumn(d, c)
    THEN [d EXCEPT !.rows = [i \in 1..Len(d.rows) |->
                   [d.rows[i] EXCEPT ![ColIndex(d.columns, c)] = values[i]]]]
    ELSE [columns |-> Append(d.columns, c),
          rows |-> [i \in 1..Len(d.rows) |-> Append(d.rows[i], values[i])]]

(***************************************************************************)
(* Inputs: the fetched page, the exchange-rate file, the configuration     *)
(***************************************************************************)
\* A <tr> of the first <tbody>: its number of <td> cells, the texts of the
\* <a> elements of its second cell, the first content of its third cell.
\* The rows of a page: a header row without <td>, two rows extract accepts,
\* and a row whose name cell holds one anchor.
HeaderRow == [ntd |-> 0, anchors |-> <<>>, metric |-> <<>>]
RowSet ==
    { HeaderRow,
      [ntd |-> 3, anchors |-> << <<"f">>, <<"A">> >>, metric |-> <<"1", ",", "5", "\n">>],
      [ntd |-> 3, anchors |-> << <<"f">>, <<"B">> >>, metric |-> <<"2", ".", "5">>],
      [ntd |-> 3, anchors |-> << <<"A">> >>, metric |-> <<"5">>] }

RECURSIVE SeqsUpTo(_, _)
SeqsUpTo(S, n) ==
    IF n = 0 THEN {<<>>}
    ELSE LET shorter == SeqsUpTo(S, n - 1)
         IN  shorter \cup {Append(q, x) : q \in shorter, x \in S}

\* data.find_all('tbody') of a page: no <tbody>, or one with up to MaxRows rows
Pages == {[tbody |-> <<>>]} \cup {[tbody |-> <<rows>>] : rows \in SeqsUpTo(RowSet, MaxRows)}
NoPage == [tbody |-> <<>>]

Currencies == {"GBP", "EUR", "INR"}
Rate(m, e) == [m |-> m, e |-> e]
\* the file at csv_path as currency_exchange_dict: the codes it lists, their rates
StandardRates ==
    [keys |-> Currencies, GBP |-> Rate(8, 1), EUR |-> Rate(9, 1), INR |-> Rate(80, 0)]
IncompleteRates ==
    [keys |-> {"GBP", "EUR"}, GBP |-> Rate(8, 1), EUR |-> Rate(9, 1), INR |-> Rate(0, 0)]
RateFiles ==
    { StandardRates, IncompleteRates,
      [keys |-> Currencies, GBP |-> Rate(8, 1), EUR |-> Rate(93, 2), INR |-> Rate(8295, 2)],
      [keys |-> Currencies, GBP |-> Rate(795, 3), EUR |-> Rate(925, 3), INR |-> Rate(8125, 2)] }
RateOf(r, c) == CASE c = "GBP" -> r.GBP [] c = "EUR" -> r.EUR [] c = "INR" -> r.INR

\* env_variables.json
TableAttributes == { <<"Name", "MC_USD_Billion">>, <<"Bank", "Market_Cap">> }
TableNames == {"Largest_banks", "Banks"}
Configs == [table_attributes : TableAttributes, table_name : TableNames]

(***************************************************************************)
(* extract                                                                 *)
(***************************************************************************)
Raised(e) == [error |-> e, df |-> NoDf]
Returned(d) == [error |-> "none", df |-> d]

\* one pass of the loop body with a row of fewer than two anchors skipped
ExtractRowSkipping(row, acc) ==
    IF row.ntd = 0 THEN Returned(acc)
    ELSE IF row.ntd < 2 THEN Raised("IndexError")
    ELSE IF Len(row.anchors) < 2 THEN Returned(acc)
    ELSE IF row.ntd < 3 THEN Raised("IndexError")
    ELSE Returned(Concat(acc, OneRowFrame(row.anchors[2], row.metric)))

\* one pass of the loop body: col[1], bank_name[1] and col[2] each raise
\* IndexError when out of range; find_all never returns None
ExtractRow(row, acc) ==
    IF row.ntd = 0 THEN Returned(acc)
    ELSE IF row.ntd < 2 THEN Raised("IndexError")
    ELSE IF Len(row.anchors) < 2 THEN Raised("IndexError")
    ELSE IF row.ntd < 3 THEN Raised("IndexError")
    ELSE Returned(Concat(acc, OneRowFrame(row.anchors[2], row.metric)))

RECURSIVE ExtractRows(_, _)
ExtractRows(rows, acc) ==
    IF rows = <<>> THEN Returned(acc)
    ELSE LET r == ExtractRow(Head(rows), acc)
         IN  IF r.error # "none" THEN r ELSE ExtractRows(Tail(rows), r.df)

\* extract(url, table_attributes) on the fetched page
extract(p, table_attributes) ==
    IF Len(p.tbody) = 0 THEN Raised("IndexError")
    ELSE ExtractRows(p.tbody[1], EmptyFrame(table_attributes))

(***************************************************************************)
(* transform                                                               *)
(***************************************************************************)
\* df[c] = [np.round(x * rate, 2) for x in df['MC_USD_Billion']]
Converted(d, rate) ==
    LET usd == Column(d, "MC_USD_Billion")
    IN  [i \in 1..Len(d.rows) |-> Num(Round2(usd[i], rate))]

RECURSIVE Convert(_, _, _)
Convert(d, r, todo) ==
    IF todo = <<>> THEN Returned(d)
    ELSE LET c == Head(todo)
         IN  IF d.rows # <<>> /\ c \notin r.keys THEN Raised("KeyError")
             ELSE Convert(SetColumn(d, "MC_" \o c \o "_Billion",
                                    Converted(d, RateOf(r, c))), r, Tail(todo))

\* transform(df, csv_path) with the rates of the file at csv_path
transform(d, r) ==
    IF ~ HasColumn(d, "MC_USD_Billion") THEN Raised("KeyError")
    ELSE LET raw == Column(d, "MC_USD_Billion")
         IN  IF \E i \in 1..Len(raw) : raw[i].t # "text" THEN Raised("AttributeError")
             ELSE IF \E i \in 1..Len(raw) : ~ IsFloat(CleanText(raw[i].s))
                  THEN Raised("ValueError")
             ELSE Convert(SetColumn(d, "MC_USD_Billion",
                            [i \in 1..Len(raw) |-> Num(ParseFloat(CleanText(raw[i].s)))]),
                          r, <<"GBP", "EUR", "INR">>)

(***************************************************************************)
(* The sinks and the query                                                 *)
(***************************************************************************)
NoFile == [header |-> <<>>, body |-> <<>>]

\* df.to_csv(output_path): a header line with an unnamed index column, then
\* one line per row, led by the row's index
to_csv(d) ==
    [header |-> <<"">> \o d.columns,
     body |-> [i \in 1..Len(d.rows) |-> [index |-> i - 1, cells |-> d.rows[i]]]]

\* load_to_csv writing in append mode
load_to_csv_appending(file, d) ==
    [header |-> to_csv(d).header, body |-> file.body \o to_csv(d).body]

\* load_to_csv(df, output_path): the file is replaced
load_to_csv(file, d) == to_csv(d)

NoTable == [exists |-> FALSE, columns |-> <<>>, rows |-> <<>>]

\* df.to_sql(..., if_exists='replace', index=False)
to_sql_replace(table, d) ==
    [error |-> "none", table |-> [exists |-> TRUE, columns |-> d.columns, rows |-> d.rows]]

\* df.to_sql(table_name, sql_connection, if_exists='append', index=False)
to_sql(table, d) ==
    IF ~ table.exists
    THEN [error |-> "none",
          table |-> [exists |-> TRUE, columns |-> d.columns, rows |-> d.rows]]
    ELSE IF \E j \in 1..Len(d.columns) : ~ HasColumn(table, d.columns[j])
    THEN [error |-> "OperationalError", table |-> table]
    ELSE [error |-> "none",
          table |-> [table EXCEPT !.rows = @ \o
                [i \in 1..Len(d.rows) |-> [j \in 1..Len(table.columns) |->
                    IF HasColumn(d, table.columns[j])
                    THEN d.rows[i][ColIndex(d.columns, table.columns[j])]
                    ELSE NaN]]]]

\* a float of at most two decimals as a number of hundredths
Hundredths(x) == x.m * Pow10(2 - x.e)

RECURSIVE SumHundredths(_)
SumHundredths(cells) ==
    IF cells = <<>> THEN 0
    ELSE Hundredths(Head(cells)) + SumHundredths(Tail(cells))

NoOut == [printed |-> FALSE, null |-> TRUE, sum |-> 0, n |-> 0]

\* AVG(column) over a table: the non-NULL cells' sum (in hundredths) over
\* their number, NULL when there is none
Average(table, column) ==
    LET cells == SelectSeq(Column(table, column), LAMBDA c : c.t = "num")
    IN  [printed |-> TRUE, null |-> cells = <<>>,
         sum |-> SumHundredths(cells), n |-> Len(cells)]

NoQuery == [column |-> "", table |-> ""]

\* pd.read_sql(query_statement, sql_connection)
read_sql(q, database) ==
    IF q.table \notin DOMAIN database \/ ~ database[q.table].exists
    THEN [error |-> "DatabaseError", out |-> NoOut]
    ELSE IF ~ HasColumn(database[q.table], q.column)
    THEN [error |-> "DatabaseError", out |-> NoOut]
    ELSE [error |-> "none", out |-> Average(database[q.table], q.column)]

(***************************************************************************)
(* log_progress and the driver (__main__)                                  *)
(***************************************************************************)
\* log_progress opening code_log.txt in mode 'w'
log_progress_truncating(file, message) == <<message>>

\* log_progress(message): one line appended to code_log.txt (the line's
\* timestamp is left out)
log_progress(file, message) == Append(file, message)

files == <<log, csv, db>>
inputs == <<cfg, rate_file>>
memory == <<df, query_statement, out, conn, opens, page>>

\* an exception that ends the process with the connection released on the way
FailClosing(e) ==
    /\ status' = "failed"
    /\ error' = e
    /\ conn' = IF conn = "open" THEN "closed" ELSE conn
    /\ UNCHANGED <<inputs, run, pc, df, query_statement, out, opens, page, trace, files>>

\* an uncaught exception ends the process where it is
Fail(e) ==
    /\ status' = "failed"
    /\ error' = e
    /\ UNCHANGED <<inputs, run, pc, memory, trace, files>>

\* a call of log_progress at statement `at`, followed by statement `next`
Log(at, message, next) ==
    /\ status = "running" /\ pc = at
    /\ log' = log_progress(log, message)
    /\ trace' = Append(trace, message)
    /\ pc' = next
    /\ UNCHANGED <<inputs, run, status, error, memory, csv, db>>

\* a new process starts and reads env_variables.json
Preliminaries ==
    /\ status \in {"idle", "failed", "done"}
    /\ run < MaxRuns
    /\ run' = run + 1
    /\ status' = "running"
    /\ pc' = "log1"
    /\ error' = "none"
    /\ df' = NoDf /\ query_statement' = NoQuery
    /\ out' = NoOut /\ conn' = "none" /\ opens' = 0 /\ page' = NoPage
    /\ trace' = <<>>
    /\ UNCHANGED <<inputs, files>>

Log1 == Log("log1", "Preliminaries complete. Initiating ETL process", "extract")

\* extract, line 53: page = requests.get(url).text
Fetch ==
    /\ status = "running" /\ pc = "extract"
    /\ \/ Fail("ConnectionError")
       \/ \E p \in Pages :
            /\ page' = p
            /\ pc' = "parse"
            /\ UNCHANGED <<inputs, run, status, error, df, query_statement,
                           out, conn, opens, trace, files>>

\* extract, lines 54-69, and df = extract(url, table_attributes); the page
\* is a local of extract, gone when extract returns
Parse ==
    /\ status = "running" /\ pc = "parse"
    /\ LET r == extract(page, cfg.table_attributes)
       IN  IF r.error # "none"
           THEN Fail(r.error)
           ELSE /\ df' = r.df /\ page' = NoPage
                /\ trace' = Append(trace, "extract")
                /\ pc' = "log2"
                /\ UNCHANGED <<inputs, run, status, error, query_statement,
                               out, conn, opens, files>>

Log2 == Log("log2", "Data extraction complete. Initiating Transformation process", "transform")

\* df = transform(df, csv_path)
Transform ==
    /\ status = "running" /\ pc = "transform"
    /\ LET r == transform(df, rate_file)
       IN  IF r.error # "none" THEN Fail(r.error)
           ELSE /\ df' = r.df
                /\ trace' = Append(trace, "transform")
                /\ pc' = "log3"
                /\ UNCHANGED <<inputs, run, status, error, query_statement, out,
                               conn, opens, page, files>>

Log3 == Log("log3", "Data transformation complete. Initiating loading process", "load_to_csv")

\* load_to_csv(df, output_path)
LoadToCsv ==
    /\ status = "running" /\ pc = "load_to_csv"
    /\ \E writable \in BOOLEAN :
         IF ~ writable THEN Fail("OSError")
         ELSE /\ csv' = load_to_csv(csv, df)
              /\ trace' = Append(trace, "load_to_csv")
              /\ pc' = "log4"
              /\ UNCHANGED <<inputs, run, status, error, memory, log, db>>

Log4 == Log("log4", "Data saved to CSV file", "connect")

\* sql_connection = sqlite3.connect(db_name)
Connect ==
    /\ status = "running" /\ pc = "connect"
    /\ conn' = "open"
    /\ opens' = opens + 1
    /\ trace' = Append(trace, "connect")
    /\ pc' = "log5"
    /\ UNCHANGED <<inputs, run, status, error, df, query_statement, out,
                   page, files>>

Log5 == Log("log5", "SQL Connection initiated.", "load_to_db")

\* load_to_db(df, sql_connection, table_name)
LoadToDb ==
    /\ status = "running" /\ pc = "load_to_db"
    /\ \E available \in BOOLEAN :
         LET r == to_sql(db[cfg.table_name], df)
         IN  IF ~ available \/ conn # "open" \/ r.error # "none"
             THEN Fail("OperationalError")
             ELSE /\ db' = [db EXCEPT ![cfg.table_name] = r.table]
                  /\ trace' = Append(trace, "load_to_db")
                  /\ pc' = "log6"
                  /\ UNCHANGED <<inputs, run, status, error, memory, log, csv>>

Log6 == Log("log6", "Data loaded to Database as table. Running the query", "query_statement")

\* query_statement = f"SELECT AVG(MC_GBP_Billion) FROM Largest_banks"
BuildQuery ==
    /\ status = "running" /\ pc = "query_statement"
    /\ query_statement' = [column |-> "MC_GBP_Billion", table |-> "Largest_banks"]
    /\ pc' = "run_query"
    /\ UNCHANGED <<inputs, run, status, error, df, out, conn, opens, page,
                   trace, files>>

\* run_query(query_statement, sql_connection)
RunQuery ==
    /\ status = "running" /\ pc = "run_query"
    /\ \E available \in BOOLEAN :
         LET r == read_sql(query_statement, db)
         IN  IF ~ available \/ conn # "open" THEN Fail("OperationalError")
             ELSE IF r.error # "none" THEN Fail(r.error)
             ELSE /\ out' = r.out
                  /\ trace' = Append(trace, "run_query")
                  /\ pc' = "log7"
                  /\ UNCHANGED <<inputs, run, status, error, df, query_statement,
                                 conn, opens, page, files>>

Log7 == Log("log7", "Process Complete.", "close")

\* the process ends with the connection never closed
CloseOmitted ==
    /\ status = "running" /\ pc = "close"
    /\ trace' = Append(trace, "close")
    /\ status' = "done"
    /\ pc' = "end"
    /\ UNCHANGED <<inputs, run, error, df, query_statement, out, conn, opens,
                   page, files>>

\* sql_connection.close(), and the process ends
Close ==
    /\ status = "running" /\ pc = "close"
    /\ conn' = "closed"
    /\ trace' = Append(trace, "close")
    /\ status' = "done"
    /\ pc' = "end"
    /\ UNCHANGED <<inputs, run, error, df, query_statement, out, opens,
                   page, files>>

Init ==
    /\ cfg \in Configs
    /\ rate_file \in {StandardRates, IncompleteRates}
    /\ run = 0
    /\ status = "idle"
    /\ pc = "end"
    /\ error = "none"
    /\ df = NoDf /\ query_statement = NoQuery
    /\ out = NoOut /\ conn = "none" /\ opens = 0 /\ page = NoPage
    /\ trace = <<>>
    /\ log = <<>>
    /\ csv = NoFile
    /\ db = [t \in TableNames |-> NoTable]

Next ==
    \/ Preliminaries
    \/ Log1 \/ Fetch \/ Parse
    \/ Log2 \/ Transform
    \/ Log3 \/ LoadToCsv
    \/ Log4 \/ Connect
    \/ Log5 \/ LoadToDb
    \/ Log6 \/ BuildQuery \/ RunQuery
    \/ Log7 \/ Close

Spec == Init /\ [][Next]_vars

(***************************************************************************)
(* transform on its own: the state at the call of transform, the Dataset   *)
(* and the rate file drawn from bounded sets                               *)
(***************************************************************************)
Alphabet == {"0", "1", "5", ",", ".", "\n", "f"}

\* the raw metric texts of the specification's examples
SampleMetrics ==
    { <<"1", ",", "2", "3", "4", ".", "5", "\n", "f", "o", "o", "t", "n", "o", "t", "e">>,
      <<"1", "0", "0", ",", "0", "0", "0", "\n">> }

Metrics == SeqsUpTo(Alphabet, MaxLen) \cup SampleMetrics

\* the raw metric texts of the second row of a two-row Dataset
PairMetrics == { <<"5">>, <<"5", ",", "5">>, <<".", "5">>, <<"f">> }

ExtractedFrame(rows) == [columns |-> <<"Name", "MC_USD_Billion">>, rows |-> rows]

\* Datasets as extract returns them: one row of any metric, or two rows
TransformInputs ==
    { ExtractedFrame(<<>>) }
      \cup { ExtractedFrame(<< <<Text(<<"A">>), Text(x)>> >>) : x \in Metrics }
      \cup { ExtractedFrame(<< <<Text(<<"B">>), Text(x)>>, <<Text(<<"A">>), Text(y)>> >>) :
               x \in SampleMetrics, y \in PairMetrics }

InitTransform ==
    /\ cfg = [table_attributes |-> <<"Name", "MC_USD_Billion">>,
              table_name |-> "Largest_banks"]
    /\ rate_file \in RateFiles
    /\ run = 1
    /\ status = "running"
    /\ pc = "transform"
    /\ error = "none"
    /\ df \in TransformInputs
    /\ query_statement = NoQuery
    /\ out = NoOut /\ conn = "none" /\ opens = 0 /\ page = NoPage
    /\ trace = <<"Preliminaries complete. Initiating ETL process", "extract",
                 "Data extraction complete. Initiating Transformation process">>
    /\ log = <<"Preliminaries complete. Initiating ETL process",
               "Data extraction complete. Initiating Transformation process">>
    /\ csv = NoFile
    /\ db = [t \in TableNames |-> NoTable]

NextTransform == Transform

SpecTransform == InitTransform /\ [][NextTransform]_vars

(***************************************************************************)
(* Properties                                                              *)
(***************************************************************************)
IsPrefix(a, b) == Len(a) <= Len(b) /\ SubSeq(b, 1, Len(a)) = a

StageNames ==
    {"extract", "transform", "load_to_csv", "connect", "load_to_db", "run_query", "close"}

\* the messages among the events of a run
Logged(events) == SelectSeq(events, LAMBDA x : x \notin StageNames)

\* the steps of a run that finish a stage
ParseReturns == status = "running" /\ pc = "parse" /\ pc' = "log2"
TransformReturns == status = "running" /\ pc = "transform" /\ pc' = "log3"
CsvWritten == status = "running" /\ pc = "load_to_csv" /\ pc' = "log4"
DbLoaded == status = "running" /\ pc = "load_to_db" /\ pc' = "log6"
QueryRuns == status = "running" /\ pc = "run_query"

\* the <tr> rows of the first <tbody> with at least one <td>
Qualifying(p) == SelectSeq(p.tbody[1], LAMBDA r : r.ntd # 0)

\* C1: a successful run writes a CSV with exactly one row per qualifying
\* row of the page, in page order, under the five data columns name, USD,
\* GBP, EUR, INR and the unnamed index column: extract returns one row per
\* qualifying row in order, transform and the CSV sink keep the rows and
\* their order.
C1_OneCsvRowPerQualifyingRow ==
    [][ /\ ParseReturns =>
             /\ Len(df'.rows) = Len(Qualifying(page))
             /\ \A i \in 1..Len(df'.rows) :
                  \E j \in 1..Len(df'.columns) :
                     df'.rows[i][j] = Text(Qualifying(page)[i].anchors[2])
        /\ TransformReturns =>
             /\ Len(df'.rows) = Len(df.rows)
             /\ Column(df', "Name") = Column(df, "Name")
        /\ CsvWritten =>
             /\ csv'.header = <<"", "Name", "MC_USD_Billion", "MC_GBP_Billion",
                                "MC_EUR_Billion", "MC_INR_Billion">>
             /\ Len(csv'.body) = Len(df.rows)
             /\ \A i \in 1..Len(df.rows) :
                  csv'.body[i].index = i - 1 /\ csv'.body[i].cells = df.rows[i]
      ]_vars

\* C2: load_to_db only appends: a table's rows before any step are a prefix
\* of its rows after it, and a load adds exactly the rows of the Dataset, in
\* order, to the configured table and touches no other table.
C2_LoadAppends ==
    [][ /\ \A t \in TableNames :
             /\ IsPrefix(db[t].rows, db'[t].rows)
             /\ db[t].exists => (db'[t].exists /\ db'[t].columns = db[t].columns)
        /\ DbLoaded =>
             LET before == db[cfg.table_name].rows
                 after == db'[cfg.table_name].rows
             IN  /\ Len(after) = Len(before) + Len(df.rows)
                 /\ SubSeq(after, Len(before) + 1, Len(after)) = df.rows
                 /\ \A t \in TableNames \ {cfg.table_name} : db'[t] = db[t]
      ]_vars

\* the same Dataset of two rows loaded by two runs: four rows, no deduplication
C2_Witness ==
    /\ run = 2 /\ status = "running" /\ pc = "log6"
    /\ Len(df.rows) = 2
    /\ db[cfg.table_name].rows = df.rows \o df.rows

Milestones ==
    << "Preliminaries complete. Initiating ETL process",
       "Data extraction complete. Initiating Transformation process",
       "Data transformation complete. Initiating loading process",
       "Data saved to CSV file",
       "SQL Connection initiated.",
       "Data loaded to Database as table. Running the query",
       "Process Complete." >>

\* the stages of a run and its messages, in the order of a run without failure
ExpectedTrace ==
    << Milestones[1], "extract", Milestones[2], "transform", Milestones[3],
       "load_to_csv", Milestones[4], "connect", Milestones[5], "load_to_db",
       Milestones[6], "run_query", Milestones[7], "close" >>

\* C3 as stated: a run that completes without failure has logged eight
\* milestone messages.
C3_EightMilestones == status = "done" => Len(Logged(trace)) = 8

\* C3 amended: the stages run in the order extract, transform, CSV write,
\* connection open, DB load, query, each message is logged after the stage
\* it reports and before the next stage, the log file gains the run's
\* messages at its end, and a run that completes has logged seven milestone
\* messages.
C3_SevenMilestonesInOrder ==
    /\ IsPrefix(trace, ExpectedTrace)
    /\ Len(log) >= Len(Logged(trace))
    /\ SubSeq(log, Len(log) - Len(Logged(trace)) + 1, Len(log)) = Logged(trace)
    /\ status = "done" => (trace = ExpectedTrace /\ Len(Logged(trace)) = 7)

\* a second run has completed, its seven messages after those of the first
C3_Witness ==
    /\ run = 2 /\ status = "done"
    /\ Len(log) > 7
    /\ SubSeq(log, Len(log) - 6, Len(log)) = Milestones

\* C4 as stated: in every terminal state of a run in which the connection
\* was opened, the connection is closed.
C4_ClosedInEveryTerminalState ==
    (status \in {"done", "failed"} /\ opens >= 1) => conn = "closed"

\* C4 amended: the connection is opened at most once per run and never
\* reopened, the load and the query run on that open connection, a run that
\* completes without failure ends with it closed, and a run that fails after
\* opening it ends with it still open.
C4_OpenedOnceClosedOnCompletion ==
    /\ opens <= 1
    /\ conn = "none" <=> opens = 0
    /\ (status = "running" /\ pc \in {"load_to_db", "log6", "query_statement",
                                      "run_query", "log7", "close"})
          => (conn = "open" /\ opens = 1)
    /\ status = "done" => (conn = "closed" /\ opens = 1)
    /\ (status = "failed" /\ opens = 1) => conn = "open"

\* a run has loaded and queried on its one connection and closed it
C4_Witness ==
    /\ status = "done" /\ conn = "closed" /\ opens = 1
    /\ out.printed
    /\ Len(db[cfg.table_name].rows) > 0

\* C5: a failure ends the run at once: the failing step and every step of
\* the failed process leave the log, the CSV file, the database, the run's
\* events and the connection as they were, the log is only ever appended
\* to, and after a failure in the load or the query the connection is open.
C5_FailureStopsTheRun ==
    [][ /\ (status = "running" /\ status' = "failed")
             => UNCHANGED <<log, csv, db, trace, conn, pc>>
        /\ status = "failed"
             => (UNCHANGED <<log, csv, db, trace, conn, pc, status>>
                   \/ (status' = "running" /\ run' = run + 1 /\ UNCHANGED <<log, csv, db>>))
        /\ IsPrefix(log, log')
        /\ (status' = "failed" /\ pc' \in {"load_to_db", "run_query"}) => conn' = "open"
      ]_vars

\* the query failed: the CSV file and the loaded rows stay, the connection is open
C5_Witness ==
    /\ status = "failed" /\ pc = "run_query"
    /\ conn = "open"
    /\ Len(csv.body) > 0
    /\ Len(db[cfg.table_name].rows) > 0
    /\ Logged(trace) = SubSeq(Milestones, 1, 6)

\* C6: the Dataset extract returns has exactly the column names of
\* table_attributes, in that order, each row holding its name and raw metric.
C6_ColumnsAreTableAttributes ==
    (status = "running" /\ pc = "log2") =>
        /\ df.columns = cfg.table_attributes
        /\ \A i \in 1..Len(df.rows) : \A j \in 1..Len(df.rows[i]) :
             df.rows[i][j].t = "text"

\* two averages are the same number
SameAverage(a, b) ==
    /\ a.printed = b.printed /\ a.null = b.null
    /\ a.sum * b.n = b.sum * a.n

\* C7: the query run after the load names the table of the configuration,
\* succeeds on it and prints the average of the GBP column over all rows of
\* that table, and changes no row of the database.
C7_QueryReadsConfiguredTable ==
    [][ QueryRuns =>
          /\ query_statement.table = cfg.table_name
          /\ db' = db
          /\ error' # "DatabaseError"
          /\ status' = "running" =>
               SameAverage(out', Average(db[cfg.table_name], "MC_GBP_Billion"))
      ]_vars

\* a qualifying row with a name cell of fewer than two anchors
Deficient(r) == r.ntd >= 2 /\ Len(r.anchors) < 2

\* C8: when a qualifying row's name cell has fewer than two anchors, extract
\* raises IndexError: no Dataset is returned, none of the rows before it,
\* and the extraction is not reported as done.
C8_MissingAnchorRaises ==
    [][ ( /\ status = "running" /\ pc = "parse"
          /\ Len(page.tbody) > 0
          /\ \E i \in 1..Len(page.tbody[1]) : Deficient(page.tbody[1][i]) )
        => ( /\ status' = "failed" /\ error' = "IndexError"
             /\ df' = NoDf
             /\ trace' = trace /\ pc' = "parse" )
      ]_vars

\* a page whose second row lacks the second anchor, after an accepted row
C8_Witness ==
    /\ status = "failed" /\ pc = "parse" /\ error = "IndexError"
    /\ Len(page.tbody) > 0 /\ Len(page.tbody[1]) = 2
    /\ page.tbody[1][1].ntd = 3 /\ Len(page.tbody[1][1].anchors) = 2
    /\ Deficient(page.tbody[1][2])
    /\ df = NoDf

\* C9: a CSV write leaves exactly the header and the rows of the Dataset
\* written, whatever the file held before (so two writes of one Dataset give
\* the same file), the file changes at no other step, and the database
\* tables never shrink.
C9_CsvHoldsLastWrite ==
    [][ /\ CsvWritten =>
             /\ csv'.header = <<"">> \o df.columns
             /\ Len(csv'.body) = Len(df.rows)
             /\ \A i \in 1..Len(df.rows) :
                  csv'.body[i] = [index |-> i - 1, cells |-> df.rows[i]]
        /\ csv' # csv => CsvWritten
        /\ \A t \in TableNames : Len(db'[t].rows) >= Len(db[t].rows)
      ]_vars

\* the second run wrote one row over a file of two rows; the table holds three
C9_Witness ==
    /\ run = 2 /\ status = "running" /\ pc = "log6"
    /\ Len(csv.body) = 1 /\ csv.body[1].cells = df.rows[1]
    /\ Len(db[cfg.table_name].rows) = 3

\* g is x * rate rounded to the nearest hundredth
IsRounded(g, x, rate) ==
    LET p == x.m * rate.m
        e == x.e + rate.e
        h == g.m * Pow10(2 - g.e)
    IN  /\ g.t = "num" /\ g.e <= 2
        /\ IF e <= 2 THEN h = p * Pow10(2 - e)
           ELSE LET unit == Pow10(e - 2)
                    d == p - h * unit
                IN  2 * d <= unit /\ 2 * d >= 0 - unit

\* C10: transform keeps the rows, their order and their names, sets USD to
\* the number denoted by the first line of the raw metric without its
\* commas ("1,234.5\nfootnote" gives 1234.5), and sets GBP, EUR and INR to
\* USD times the rate, rounded to two decimals.
C10_TransformConverts ==
    [][ TransformReturns =>
          /\ df'.columns = <<"Name", "MC_USD_Billion", "MC_GBP_Billion",
                             "MC_EUR_Billion", "MC_INR_Billion">>
          /\ Len(df'.rows) = Len(df.rows)
          /\ \A i \in 1..Len(df.rows) :
               LET raw == df.rows[i][2].s
                   usd == df'.rows[i][2]
               IN  /\ df'.rows[i][1] = df.rows[i][1]
                   /\ usd = Num(ParseFloat(CleanText(raw)))
                   /\ raw = <<"1", ",", "2", "3", "4", ".", "5", "\n",
                              "f", "o", "o", "t", "n", "o", "t", "e">>
                        => usd = Num([m |-> 12345, e |-> 1])
                   /\ IsRounded(df'.rows[i][3], usd, rate_file.GBP)
                   /\ IsRounded(df'.rows[i][4], usd, rate_file.EUR)
                   /\ IsRounded(df'.rows[i][5], usd, rate_file.INR)
      ]_vars

\* "1,234.5\nfootnote" under GBP 0.8, EUR 0.9, INR 80: 1234.5, 987.6, 1111.05, 98760
C10_Witness ==
    /\ pc = "log3" /\ rate_file = StandardRates
    /\ Len(df.rows) = 1
    /\ df.rows[1][2] = Num([m |-> 12345, e |-> 1])
    /\ df.rows[1][3] = Num([m |-> 9876, e |-> 1])
    /\ df.rows[1][4] = Num([m |-> 111105, e |-> 2])
    /\ df.rows[1][5] = Num([m |-> 98760, e |-> 0])

====
